---- MODULE Spec2Model ----
(***************************************************************************)
(* Back-office views of apps/accounts/views.py: employees, suppliers,      *)
(* categories, products and sales over one relational store, with the      *)
(* ActivityLog written by every mutating view.                             *)
(*                                                                         *)
(* Spec       : every mutating view as one atomic request (sequential).    *)
(* SpecSearch : the employee screens (list, detail, create, update,        *)
(*              delete).                                                   *)
(* SpecConc   : sale_create / sale_update one database statement at a time *)
(*              (no transaction is opened by the views), interleaved with  *)
(*              each other and with the reader sale_detail_json.           *)
(***************************************************************************)
EXTENDS Integers, Sequences, FiniteSets, TLC

\* ---------------------------------------------------------------- bounds
MaxLog == 2
MaxForms == 2
MaxIds == 2

\* ---------------------------------------------------------------- values
Anonymous == 0

Roles == {"admin", "cashier"}

\* text values are sequences of characters, so that case matters
NameAb == <<"A", "b">>
NameBa == <<"B", "a">>
NameCa == <<"c", "a">>
MailAx == <<"a", "@", "x">>
MailCx == <<"C", "@", "x">>

Lower(c) ==
    IF c = "A" THEN "a" ELSE IF c = "B" THEN "b" ELSE IF c = "C" THEN "c" ELSE c

LowerStr(s) == [i \in 1..Len(s) |-> Lower(s[i])]

\* Django's __icontains lookup: case-insensitive substring
icontains(field, term) ==
    \E i \in 1..(Len(field) - Len(term) + 1) :
        SubSeq(LowerStr(field), i, i + Len(term) - 1) = LowerStr(term)

RECURSIVE SetToSeq(_)
\* ascending primary keys, the order in which a formset lists existing rows
SetToSeq(S) ==
    IF S = {} THEN << >>
    ELSE LET m == CHOOSE x \in S : \A y \in S : x <= y
         IN  <<m>> \o SetToSeq(S \ {m})

Range(s) == {s[i] : i \in 1..Len(s)}

Restrict(f, S) == [x \in S |-> f[x]]

\* ---------------------------------------------------------------- state
VARIABLES
    users,        \* pk -> [first_name, last_name, email, role, is_active]
    suppliers,    \* pk -> [status]
    categories,   \* pk -> [status]
    products,     \* pk -> [status]
    sales,        \* pk -> [status, total_amount]
    items,        \* pk -> [sale, product, quantity, unit_price]
    nextpk,       \* autoincrement counters, one per table
    log,          \* ActivityLog rows in insertion order
    last,         \* the request just answered and its response
    pc,           \* SpecConc: position of each in-flight request
    loc           \* SpecConc: locals of each in-flight request

store == <<users, suppliers, categories, products, sales, items, nextpk>>

conc == <<pc, loc>>

vars == <<users, suppliers, categories, products, sales, items, nextpk, log, last, pc, loc>>

Procs == {1, 2}

IdleLoc == [view |-> "none", user |-> Anonymous, pk |-> 0, status |-> "pending",
            total_amount |-> 0, formset |-> << >>, initial |-> << >>,
            before |-> [sales |-> << >>, items |-> << >>, products |-> << >>,
                        next_item |-> 0],
            raised |-> "none"]

\* the rows a request finds when it starts
Before == [sales |-> sales, items |-> items, products |-> products,
           next_item |-> nextpk.item]

\* ---------------------------------------------------------------- models
\* SaleItem.line_total
line_total(item) == item.quantity * item.unit_price

\* User.is_admin()
is_admin(u) == u.role = "admin"

\* sale.items.all()
SaleItems(its, sale) == {i \in DOMAIN its : its[i].sale = sale}

\* product.items.all()
ProductItems(its, product) == {i \in DOMAIN its : its[i].product = product}

RECURSIVE SumLineTotals(_, _)
SumLineTotals(its, S) ==
    IF S = {} THEN 0
    ELSE LET i == CHOOSE x \in S : TRUE
         IN  line_total(its[i]) + SumLineTotals(its, S \ {i})

\* variant: the total already stored on the sale is kept
ComputeTotal_Stored(its, sale) == IF sale \in DOMAIN sales THEN sales[sale].total_amount ELSE 0

\* sum(item.line_total for item in sale.items.all())
ComputeTotal(its, sale) == SumLineTotals(its, SaleItems(its, sale))

\* Sale.delete(): the sale's SaleItems go with it
DeleteSales(its, pks) == Restrict(its, {i \in DOMAIN its : its[i].sale \notin pks})

\* ---------------------------------------------------------------- guards
\* request.user: the anonymous user or an active account
Principals == {Anonymous} \cup {u \in DOMAIN users : users[u].is_active}

is_authenticated(u) == u # Anonymous

\* AdminRequiredMixin.test_func
test_func(u) == is_authenticated(u) /\ is_admin(users[u])

Resp(view, u, pk, outcome, level) ==
    [view |-> view, user |-> u, pk |-> pk, outcome |-> outcome, level |-> level,
     count |-> 0, result |-> {}, req |-> [kind |-> "none"]]

\* AdminRequiredMixin.handle_no_permission
handle_no_permission(view, u, pk) == Resp(view, u, pk, "redirect_login", "error")

\* LoginRequiredMixin alone: AccessMixin.handle_no_permission, no notice
LoginRedirect(view, u, pk) == Resp(view, u, pk, "redirect_login", "none")

\* ActivityLog rows of a deleted User: kept (the log is never updated or deleted)
OnUserDelete(lg, pk) == lg

\* variant: the new row replaces the log
LogCreate_Replace(lg, u, verb, level) == <<[user |-> u, verb |-> verb, level |-> level]>>

\* ActivityLog.objects.create(user=..., verb=..., level=...)
LogCreate(lg, u, verb, level) == Append(lg, [user |-> u, verb |-> verb, level |-> level])

\* ---------------------------------------------------------------- forms
HeaderForms ==
    {[status |-> "completed", errors |-> FALSE],
     [status |-> "pending", errors |-> TRUE]}

FieldChoices ==
    {[product |-> 1, quantity |-> 1, unit_price |-> 2],
     [product |-> 2, quantity |-> 2, unit_price |-> 3]}

ValidRow(c) ==
    [product |-> c.product, quantity |-> c.quantity, unit_price |-> c.unit_price,
     DELETE |-> FALSE, errors |-> FALSE]

ErrorRow == [product |-> 1, quantity |-> 1, unit_price |-> 2, DELETE |-> FALSE, errors |-> TRUE]

DeleteRow(err) == [product |-> 1, quantity |-> 1, unit_price |-> 2, DELETE |-> TRUE, errors |-> err]

\* the rows a client can submit as extra forms: a valid row names an existing
\* product; one row stands for every row that fails field validation
ExtraData ==
    {ValidRow(c) : c \in {d \in FieldChoices : d.product \in DOMAIN products}} \cup {ErrorRow}

\* the rows a client can submit for an existing line: also its deletion
InitialData == ExtraData \cup {DeleteRow(FALSE), DeleteRow(TRUE)}

\* a smaller choice of rows, for the specification of all the screens
FewExtraData ==
    {ValidRow(c) : c \in {d \in FieldChoices : d.product \in DOMAIN products /\ d.product = 2}}
    \cup {ErrorRow}

FewInitialData == FewExtraData \cup {DeleteRow(FALSE)}

MkForm(id, d) ==
    [id |-> id, product |-> d.product, quantity |-> d.quantity,
     unit_price |-> d.unit_price, DELETE |-> d.DELETE, errors |-> d.errors]

\* SaleItemFormSet(request.POST, instance=sale): one initial form per existing
\* row of the sale, then the extra forms
Formsets(existing, initial, extra) ==
    LET ids == SetToSeq(existing)
        n == Len(ids)
    IN  UNION {{[i \in 1..(n + k) |-> MkForm(IF i <= n THEN ids[i] ELSE 0,
                                             IF i <= n THEN di[i] ELSE dx[i - n])] :
                    di \in [1..n -> initial], dx \in [1..k -> extra]} : k \in 0..(MaxForms - n)}

\* form.is_valid()
form_is_valid(form) == ~form.errors

\* variant: only the first form is validated
formset_is_valid_First(formset) ==
    formset = << >> \/ formset[1].DELETE \/ ~formset[1].errors

\* formset.is_valid(): forms marked for deletion are not validated
formset_is_valid(formset) ==
    \A i \in 1..Len(formset) : formset[i].DELETE \/ ~formset[i].errors

\* the existing rows a formset is bound to when it is built
InitialRows(its, sale) == Restrict(its, SaleItems(its, sale))

RECURSIVE SaveForms(_, _, _, _, _, _)
\* formset.save(): delete the rows marked DELETE, save the changed existing
\* rows (Model.save() updates, or inserts when the row is gone), insert the
\* extra rows under fresh primary keys
SaveForms(formset, i, sale, initial, its, nxt) ==
    IF i > Len(formset) THEN [items |-> its, next |-> nxt]
    ELSE LET f == formset[i]
             row == [sale |-> sale, product |-> f.product, quantity |-> f.quantity,
                     unit_price |-> f.unit_price]
         IN  IF f.id # 0
             THEN IF f.DELETE
                  THEN SaveForms(formset, i + 1, sale, initial,
                                 Restrict(its, DOMAIN its \ {f.id}), nxt)
                  ELSE IF f.id \in DOMAIN initial /\ initial[f.id] = row
                       THEN SaveForms(formset, i + 1, sale, initial, its, nxt)
                       ELSE SaveForms(formset, i + 1, sale, initial,
                                      (f.id :> row) @@ Restrict(its, DOMAIN its \ {f.id}), nxt)
             ELSE IF f.DELETE
                  THEN SaveForms(formset, i + 1, sale, initial, its, nxt)
                  ELSE SaveForms(formset, i + 1, sale, initial, (nxt :> row) @@ its, nxt + 1)

formset_save(formset, sale, initial, its, nxt) == SaveForms(formset, 1, sale, initial, its, nxt)

\* the request as the client sent it: what the response is judged against
SaleReq(form, formset) ==
    [kind |-> "sale",
     header_errors |-> form.errors,
     rows |-> Len(formset),
     bad_rows |-> Cardinality({i \in 1..Len(formset) : formset[i].errors /\ ~formset[i].DELETE})]

\* ---------------------------------------------------------------- Init
Init ==
    /\ users = (1 :> [first_name |-> NameAb, last_name |-> NameBa, email |-> MailAx,
                      role |-> "admin", is_active |-> TRUE])
            @@ (2 :> [first_name |-> NameCa, last_name |-> NameAb, email |-> MailCx,
                      role |-> "cashier", is_active |-> TRUE])
            @@ (3 :> [first_name |-> NameBa, last_name |-> NameBa, email |-> MailAx,
                      role |-> "admin", is_active |-> FALSE])
    /\ suppliers = (1 :> [status |-> "active"])
    /\ categories = (1 :> [status |-> "active"])
    /\ products = (1 :> [status |-> "active"]) @@ (2 :> [status |-> "active"])
    /\ sales = (1 :> [status |-> "pending", total_amount |-> 8])
            @@ (2 :> [status |-> "pending", total_amount |-> 4])
    /\ items = (1 :> [sale |-> 1, product |-> 1, quantity |-> 1, unit_price |-> 2])
            @@ (2 :> [sale |-> 1, product |-> 2, quantity |-> 2, unit_price |-> 3])
            @@ (3 :> [sale |-> 2, product |-> 1, quantity |-> 2, unit_price |-> 2])
    /\ nextpk = [user |-> 4, supplier |-> 2, category |-> 2, product |-> 3, sale |-> 3, item |-> 4]
    /\ log = <<[user |-> 1, verb |-> "Vente creee", level |-> "success"]>>
    /\ last = Resp("none", Anonymous, 0, "none", "none")
    /\ pc = [p \in Procs |-> "idle"]
    /\ loc = [p \in Procs |-> IdleLoc]

\* ---------------------------------------------------------------- sales
\* Model.save(): write every field of the in-memory object
SaveSale(tbl, pk, status, total) ==
    (pk :> [status |-> status, total_amount |-> total]) @@ Restrict(tbl, DOMAIN tbl \ {pk})

\* def sale_create(request), POST, by a logged-in user (request.user is the
\* user of the ActivityLog row)
sale_create(u, form, formset) ==
    /\ Len(log) < MaxLog
    /\ UNCHANGED <<users, suppliers, categories, products, conc>>
    /\ is_authenticated(u)
    /\ IF form_is_valid(form) /\ formset_is_valid(formset)
       THEN LET pk == nextpk.sale
                saved == formset_save(formset, pk, InitialRows(items, pk), items, nextpk.item)
            IN  /\ items' = saved.items
                /\ sales' = SaveSale(sales, pk, form.status, ComputeTotal(saved.items, pk))
                /\ nextpk' = [nextpk EXCEPT !.sale = pk + 1, !.item = saved.next]
                /\ log' = LogCreate(log, u, "Vente creee", "success")
                /\ last' = [Resp("sale_create", u, pk, "redirect", "success")
                               EXCEPT !.req = SaleReq(form, formset)]
       ELSE /\ last' = [Resp("sale_create", u, 0, "render", "none")
                           EXCEPT !.req = SaleReq(form, formset)]
            /\ UNCHANGED <<sales, items, nextpk, log>>

\* def sale_update(request, pk), POST, by a logged-in user
sale_update(u, pk, form, formset) ==
    /\ Len(log) < MaxLog
    /\ UNCHANGED <<users, suppliers, categories, products, conc>>
    /\ is_authenticated(u)
    /\ IF pk \notin DOMAIN sales
       THEN /\ last' = Resp("sale_update", u, pk, "not_found", "none")
            /\ UNCHANGED <<sales, items, nextpk, log>>
       ELSE IF form_is_valid(form) /\ formset_is_valid(formset)
       THEN LET saved == formset_save(formset, pk, InitialRows(items, pk), items, nextpk.item)
            IN  /\ items' = saved.items
                /\ sales' = SaveSale(sales, pk, form.status, ComputeTotal(saved.items, pk))
                /\ nextpk' = [nextpk EXCEPT !.item = saved.next]
                /\ log' = LogCreate(log, u, "Vente modifiee", "info")
                /\ last' = [Resp("sale_update", u, pk, "redirect", "success")
                               EXCEPT !.req = SaleReq(form, formset)]
       ELSE /\ last' = [Resp("sale_update", u, pk, "render", "none")
                           EXCEPT !.req = SaleReq(form, formset)]
            /\ UNCHANGED <<sales, items, nextpk, log>>

\* class SaleDeleteView(LoginRequiredMixin, DeleteView), POST
SaleDeleteView(u, pk) ==
    /\ Len(log) < MaxLog
    /\ UNCHANGED <<users, suppliers, categories, products, nextpk, conc>>
    /\ IF ~is_authenticated(u)
       THEN /\ last' = LoginRedirect("SaleDeleteView", u, pk)
            /\ UNCHANGED <<sales, items, log>>
       ELSE IF pk \notin DOMAIN sales
       THEN /\ last' = Resp("SaleDeleteView", u, pk, "not_found", "none")
            /\ UNCHANGED <<sales, items, log>>
       ELSE /\ sales' = Restrict(sales, DOMAIN sales \ {pk})
            /\ items' = DeleteSales(items, {pk})
            /\ log' = LogCreate(log, u, "Vente supprimee", "danger")
            /\ last' = Resp("SaleDeleteView", u, pk, "redirect", "success")

IdChoices == {1, 2, 9}

IdLists == UNION {[1..n -> IdChoices] : n \in 0..MaxIds}

\* variant: the filter is dropped
FilterPkIn_All(ids) == DOMAIN sales

\* Sale.objects.filter(pk__in=ids)
FilterPkIn(ids) == Range(ids) \cap DOMAIN sales

\* class SaleBulkDeleteView(LoginRequiredMixin, View).post
SaleBulkDeleteView(u, ids) ==
    /\ Len(log) < MaxLog
    /\ UNCHANGED <<users, suppliers, categories, products, nextpk, conc>>
    /\ IF ~is_authenticated(u)
       THEN /\ last' = LoginRedirect("SaleBulkDeleteView", u, 0)
            /\ UNCHANGED <<sales, items, log>>
       ELSE IF ids # << >>
       THEN LET matched == FilterPkIn(ids)
                count == Cardinality(matched)
            IN  /\ sales' = Restrict(sales, DOMAIN sales \ matched)
                /\ items' = DeleteSales(items, matched)
                /\ log' = LogCreate(log, u, "vente(s) supprimee(s) en masse", "danger")
                /\ last' = [Resp("SaleBulkDeleteView", u, 0, "redirect", "success")
                               EXCEPT !.count = count, !.req = [kind |-> "bulk", ids |-> ids]]
       ELSE /\ last' = [Resp("SaleBulkDeleteView", u, 0, "redirect", "info")
                           EXCEPT !.req = [kind |-> "bulk", ids |-> ids]]
            /\ UNCHANGED <<sales, items, log>>

\* ---------------------------------------------------------------- products
EntityForms ==
    {[status |-> "inactive", errors |-> FALSE],
     [status |-> "active", errors |-> TRUE]}

\* variant: the dependent rows are left in place
DeleteProductItems_Skip(its, pk) == its

\* obj.items.all().delete()
DeleteProductItems(its, pk) == Restrict(its, DOMAIN its \ ProductItems(its, pk))

\* class ProductDeleteView(LoginRequiredMixin, AdminRequiredMixin, DeleteView).delete
ProductDeleteView(u, pk) ==
    /\ Len(log) < MaxLog
    /\ UNCHANGED <<users, suppliers, categories, sales, nextpk, conc>>
    /\ IF ~test_func(u)
       THEN /\ last' = handle_no_permission("ProductDeleteView", u, pk)
            /\ UNCHANGED <<products, items, log>>
       ELSE IF pk \notin DOMAIN products
       THEN /\ last' = Resp("ProductDeleteView", u, pk, "not_found", "none")
            /\ UNCHANGED <<products, items, log>>
       ELSE LET afterItems == DeleteProductItems(items, pk)
            IN  /\ items' = afterItems
                /\ products' = Restrict(products, DOMAIN products \ {pk})
                /\ log' = LogCreate(log, u, "Produit et elements de vente supprimes", "danger")
                /\ last' = [Resp("ProductDeleteView", u, pk, "redirect", "success")
                               EXCEPT !.req = [kind |-> "product_delete",
                                               dependents |-> Cardinality(ProductItems(items, pk)),
                                               left |-> Cardinality(ProductItems(afterItems, pk))]]

\* class ProductCreateView(LoginRequiredMixin, AdminRequiredMixin, CreateView)
ProductCreateView(u, form) ==
    /\ Len(log) < MaxLog
    /\ UNCHANGED <<users, suppliers, categories, sales, items, conc>>
    /\ IF ~test_func(u)
       THEN /\ last' = handle_no_permission("ProductCreateView", u, 0)
            /\ UNCHANGED <<products, nextpk, log>>
       ELSE IF form_is_valid(form)
       THEN /\ products' = (nextpk.product :> [status |-> form.status]) @@ products
            /\ nextpk' = [nextpk EXCEPT !.product = @ + 1]
            /\ log' = LogCreate(log, u, "Produit ajoute", "success")
            /\ last' = Resp("ProductCreateView", u, nextpk.product, "redirect", "success")
       ELSE /\ last' = Resp("ProductCreateView", u, 0, "render", "none")
            /\ UNCHANGED <<products, nextpk, log>>

\* class ProductUpdateView(LoginRequiredMixin, AdminRequiredMixin, UpdateView)
ProductUpdateView(u, pk, form) ==
    /\ Len(log) < MaxLog
    /\ UNCHANGED <<users, suppliers, categories, sales, items, nextpk, conc>>
    /\ IF ~test_func(u)
       THEN /\ last' = handle_no_permission("ProductUpdateView", u, pk)
            /\ UNCHANGED <<products, log>>
       ELSE IF pk \notin DOMAIN products
       THEN /\ last' = Resp("ProductUpdateView", u, pk, "not_found", "none")
            /\ UNCHANGED <<products, log>>
       ELSE IF form_is_valid(form)
       THEN /\ products' = [products EXCEPT ![pk] = [status |-> form.status]]
            /\ log' = LogCreate(log, u, "Produit modifie", "info")
            /\ last' = Resp("ProductUpdateView", u, pk, "redirect", "success")
       ELSE /\ last' = Resp("ProductUpdateView", u, pk, "render", "none")
            /\ UNCHANGED <<products, log>>

\* ---------------------------------------------------------------- suppliers
\* class SupplierCreateView(LoginRequiredMixin, AdminRequiredMixin, CreateView)
SupplierCreateView(u, form) ==
    /\ Len(log) < MaxLog
    /\ UNCHANGED <<users, categories, products, sales, items, conc>>
    /\ IF ~test_func(u)
       THEN /\ last' = handle_no_permission("SupplierCreateView", u, 0)
            /\ UNCHANGED <<suppliers, nextpk, log>>
       ELSE IF form_is_valid(form)
       THEN /\ suppliers' = (nextpk.supplier :> [status |-> form.status]) @@ suppliers
            /\ nextpk' = [nextpk EXCEPT !.supplier = @ + 1]
            /\ log' = LogCreate(log, u, "Fournisseur cree", "success")
            /\ last' = Resp("SupplierCreateView", u, nextpk.supplier, "redirect", "success")
       ELSE /\ last' = Resp("SupplierCreateView", u, 0, "render", "none")
            /\ UNCHANGED <<suppliers, nextpk, log>>

\* class SupplierUpdateView(LoginRequiredMixin, AdminRequiredMixin, UpdateView)
SupplierUpdateView(u, pk, form) ==
    /\ Len(log) < MaxLog
    /\ UNCHANGED <<users, categories, products, sales, items, nextpk, conc>>
    /\ IF ~test_func(u)
       THEN /\ last' = handle_no_permission("SupplierUpdateView", u, pk)
            /\ UNCHANGED <<suppliers, log>>
       ELSE IF pk \notin DOMAIN suppliers
       THEN /\ last' = Resp("SupplierUpdateView", u, pk, "not_found", "none")
            /\ UNCHANGED <<suppliers, log>>
       ELSE IF form_is_valid(form)
       THEN /\ suppliers' = [suppliers EXCEPT ![pk] = [status |-> form.status]]
            /\ log' = LogCreate(log, u, "Fournisseur modifie", "info")
            /\ last' = Resp("SupplierUpdateView", u, pk, "redirect", "success")
       ELSE /\ last' = Resp("SupplierUpdateView", u, pk, "render", "none")
            /\ UNCHANGED <<suppliers, log>>

\* class SupplierDeleteView(LoginRequiredMixin, AdminRequiredMixin, DeleteView).delete
SupplierDeleteView(u, pk) ==
    /\ Len(log) < MaxLog
    /\ UNCHANGED <<users, categories, products, sales, items, nextpk, conc>>
    /\ IF ~test_func(u)
       THEN /\ last' = handle_no_permission("SupplierDeleteView", u, pk)
            /\ UNCHANGED <<suppliers, log>>
       ELSE IF pk \notin DOMAIN suppliers
       THEN /\ last' = Resp("SupplierDeleteView", u, pk, "not_found", "none")
            /\ UNCHANGED <<suppliers, log>>
       ELSE /\ suppliers' = Restrict(suppliers, DOMAIN suppliers \ {pk})
            /\ log' = LogCreate(log, u, "Fournisseur supprime", "danger")
            /\ last' = Resp("SupplierDeleteView", u, pk, "redirect", "success")

\* ---------------------------------------------------------------- categories
\* class CategoryCreateView(LoginRequiredMixin, AdminRequiredMixin, CreateView)
CategoryCreateView(u, form) ==
    /\ Len(log) < MaxLog
    /\ UNCHANGED <<users, suppliers, products, sales, items, conc>>
    /\ IF ~test_func(u)
       THEN /\ last' = handle_no_permission("CategoryCreateView", u, 0)
            /\ UNCHANGED <<categories, nextpk, log>>
       ELSE IF form_is_valid(form)
       THEN /\ categories' = (nextpk.category :> [status |-> form.status]) @@ categories
            /\ nextpk' = [nextpk EXCEPT !.category = @ + 1]
            /\ log' = LogCreate(log, u, "Categorie creee", "success")
            /\ last' = Resp("CategoryCreateView", u, nextpk.category, "redirect", "success")
       ELSE /\ last' = Resp("CategoryCreateView", u, 0, "render", "none")
            /\ UNCHANGED <<categories, nextpk, log>>

\* class CategoryUpdateView(LoginRequiredMixin, AdminRequiredMixin, UpdateView)
CategoryUpdateView(u, pk, form) ==
    /\ Len(log) < MaxLog
    /\ UNCHANGED <<users, suppliers, products, sales, items, nextpk, conc>>
    /\ IF ~test_func(u)
       THEN /\ last' = handle_no_permission("CategoryUpdateView", u, pk)
            /\ UNCHANGED <<categories, log>>
       ELSE IF pk \notin DOMAIN categories
       THEN /\ last' = Resp("CategoryUpdateView", u, pk, "not_found", "none")
            /\ UNCHANGED <<categories, log>>
       ELSE IF form_is_valid(form)
       THEN /\ categories' = [categories EXCEPT ![pk] = [status |-> form.status]]
            /\ log' = LogCreate(log, u, "Categorie modifiee", "info")
            /\ last' = Resp("CategoryUpdateView", u, pk, "redirect", "success")
       ELSE /\ last' = Resp("CategoryUpdateView", u, pk, "render", "none")
            /\ UNCHANGED <<categories, log>>

\* class CategoryDeleteView(LoginRequiredMixin, AdminRequiredMixin, DeleteView).delete
CategoryDeleteView(u, pk) ==
    /\ Len(log) < MaxLog
    /\ UNCHANGED <<users, suppliers, products, sales, items, nextpk, conc>>
    /\ IF ~test_func(u)
       THEN /\ last' = handle_no_permission("CategoryDeleteView", u, pk)
            /\ UNCHANGED <<categories, log>>
       ELSE IF pk \notin DOMAIN categories
       THEN /\ last' = Resp("CategoryDeleteView", u, pk, "not_found", "none")
            /\ UNCHANGED <<categories, log>>
       ELSE /\ categories' = Restrict(categories, DOMAIN categories \ {pk})
            /\ log' = LogCreate(log, u, "Categorie supprimee", "danger")
            /\ last' = Resp("CategoryDeleteView", u, pk, "redirect", "success")

\* ---------------------------------------------------------------- employees
EmployeeForms ==
    {[first_name |-> NameCa, last_name |-> NameBa, email |-> MailCx,
      role |-> "cashier", is_active |-> TRUE, errors |-> FALSE],
     [first_name |-> NameAb, last_name |-> NameAb, email |-> MailAx,
      role |-> "admin", is_active |-> TRUE, errors |-> FALSE],
     [first_name |-> NameBa, last_name |-> NameBa, email |-> MailAx,
      role |-> "cashier", is_active |-> FALSE, errors |-> FALSE],
     [first_name |-> NameBa, last_name |-> NameCa, email |-> MailCx,
      role |-> "admin", is_active |-> TRUE, errors |-> TRUE]}

UserRow(form) ==
    [first_name |-> form.first_name, last_name |-> form.last_name, email |-> form.email,
     role |-> form.role, is_active |-> form.is_active]

SearchTerms == {<< >>, <<"a">>, <<"B">>, <<"c", "A">>, <<"@">>}

RoleParams == {"", "admin", "cashier", "manager"}

StatusParams == {"", "active", "inactive", "archived"}

\* EmployeeSearchForm(request.GET).is_valid(): role and status are choice fields
EmployeeSearchForm_is_valid(search, role, status) ==
    /\ role \in {""} \cup Roles
    /\ status \in {"", "active", "inactive"}

\* variant: the caller is not excluded
ExcludeSelf_All(u) == DOMAIN users

\* User.objects.exclude(pk=self.request.user.pk)
ExcludeSelf(u) == DOMAIN users \ {u}

\* EmployeeListView.get_queryset
get_queryset(u, search, role, status) ==
    LET qs0 == ExcludeSelf(u)
        qs1 == IF search # << >>
               THEN {e \in qs0 : icontains(users[e].first_name, search)}
                    \cup {e \in qs0 : icontains(users[e].last_name, search)}
                    \cup {e \in qs0 : icontains(users[e].email, search)}
               ELSE qs0
        qs2 == IF role # "" THEN {e \in qs1 : users[e].role = role} ELSE qs1
        qs3 == IF status = "active" THEN {e \in qs2 : users[e].is_active}
               ELSE IF status = "inactive" THEN {e \in qs2 : ~users[e].is_active}
               ELSE qs2
    IN  IF EmployeeSearchForm_is_valid(search, role, status) THEN qs3 ELSE qs0

\* class EmployeeListView(LoginRequiredMixin, AdminRequiredMixin, ListView)
EmployeeListView(u, search, role, status) ==
    /\ UNCHANGED <<store, log, conc>>
    /\ IF ~test_func(u)
       THEN last' = handle_no_permission("EmployeeListView", u, 0)
       ELSE last' = [Resp("EmployeeListView", u, 0, "ok", "none")
                        EXCEPT !.result = get_queryset(u, search, role, status),
                               !.req = [kind |-> "search", search |-> search,
                                        role |-> role, status |-> status]]

\* class EmployeeDetailView(LoginRequiredMixin, AdminRequiredMixin, DetailView)
EmployeeDetailView(u, pk) ==
    /\ UNCHANGED <<store, log, conc>>
    /\ IF ~test_func(u)
       THEN last' = handle_no_permission("EmployeeDetailView", u, pk)
       ELSE IF pk \notin ExcludeSelf(u)
       THEN last' = Resp("EmployeeDetailView", u, pk, "not_found", "none")
       ELSE last' = [Resp("EmployeeDetailView", u, pk, "ok", "none") EXCEPT !.result = {pk}]

\* class EmployeeCreateView(LoginRequiredMixin, AdminRequiredMixin, CreateView)
EmployeeCreateView(u, form) ==
    /\ Len(log) < MaxLog
    /\ UNCHANGED <<suppliers, categories, products, sales, items, conc>>
    /\ IF ~test_func(u)
       THEN /\ last' = handle_no_permission("EmployeeCreateView", u, 0)
            /\ UNCHANGED <<users, nextpk, log>>
       ELSE IF form_is_valid(form)
       THEN /\ users' = (nextpk.user :> UserRow(form)) @@ users
            /\ nextpk' = [nextpk EXCEPT !.user = @ + 1]
            /\ log' = LogCreate(log, u, "Employe ajoute", "success")
            /\ last' = Resp("EmployeeCreateView", u, nextpk.user, "redirect", "success")
       ELSE /\ last' = Resp("EmployeeCreateView", u, 0, "render", "none")
            /\ UNCHANGED <<users, nextpk, log>>

\* class EmployeeUpdateView(LoginRequiredMixin, AdminRequiredMixin, UpdateView)
EmployeeUpdateView(u, pk, form) ==
    /\ Len(log) < MaxLog
    /\ UNCHANGED <<suppliers, categories, products, sales, items, nextpk, conc>>
    /\ IF ~test_func(u)
       THEN /\ last' = handle_no_permission("EmployeeUpdateView", u, pk)
            /\ UNCHANGED <<users, log>>
       ELSE IF pk \notin ExcludeSelf(u)
       THEN /\ last' = Resp("EmployeeUpdateView", u, pk, "not_found", "none")
            /\ UNCHANGED <<users, log>>
       ELSE IF form_is_valid(form)
       THEN /\ users' = [users EXCEPT ![pk] = UserRow(form)]
            /\ log' = LogCreate(log, u, "Employe modifie", "info")
            /\ last' = Resp("EmployeeUpdateView", u, pk, "redirect", "success")
       ELSE /\ last' = Resp("EmployeeUpdateView", u, pk, "render", "none")
            /\ UNCHANGED <<users, log>>

\* class EmployeeDeleteView(LoginRequiredMixin, AdminRequiredMixin, DeleteView).delete
EmployeeDeleteView(u, pk) ==
    /\ Len(log) < MaxLog
    /\ UNCHANGED <<suppliers, categories, products, sales, items, nextpk, conc>>
    /\ IF ~test_func(u)
       THEN /\ last' = handle_no_permission("EmployeeDeleteView", u, pk)
            /\ UNCHANGED <<users, log>>
       ELSE IF pk \notin ExcludeSelf(u)
       THEN /\ last' = Resp("EmployeeDeleteView", u, pk, "not_found", "none")
            /\ UNCHANGED <<users, log>>
       ELSE /\ users' = Restrict(users, DOMAIN users \ {pk})
            /\ log' = LogCreate(OnUserDelete(log, pk), u, "Employe supprime", "danger")
            /\ last' = Resp("EmployeeDeleteView", u, pk, "redirect", "success")

\* class UserRegisterView(CreateView)
UserRegisterView(u, form) ==
    /\ Len(log) < MaxLog
    /\ UNCHANGED <<suppliers, categories, products, sales, items, conc>>
    /\ IF form_is_valid(form)
       THEN /\ users' = (nextpk.user :> UserRow(form)) @@ users
            /\ nextpk' = [nextpk EXCEPT !.user = @ + 1]
            /\ log' = LogCreate(log, nextpk.user, "Compte cree", "success")
            /\ last' = Resp("UserRegisterView", u, nextpk.user, "redirect", "success")
       ELSE /\ last' = Resp("UserRegisterView", u, 0, "render", "error")
            /\ UNCHANGED <<users, nextpk, log>>

PkChoices(table) == DOMAIN table \cup {9}

\* a request that the guard turns away is answered the same whatever it carries
IfLoggedIn(u, S) == IF is_authenticated(u) THEN S ELSE {CHOOSE x \in S : TRUE}

IfAdmin(u, S) == IF test_func(u) THEN S ELSE {CHOOSE x \in S : TRUE}

ItemsOfPk(pk) == IF pk \in DOMAIN sales THEN SaleItems(items, pk) ELSE {}

\* ---------------------------------------------------------------- Spec
\* a header that fails validation is turned away whatever rows come with it
FormsetsFor(form, pk, initial, extra) ==
    IF ~form.errors
    THEN Formsets(ItemsOfPk(pk), initial, extra)
    ELSE {CHOOSE fs \in Formsets(ItemsOfPk(pk), initial, extra) : formset_is_valid(fs)}

SaleRequests(initial, extra) ==
    /\ Len(log) < MaxLog
    /\ \E u \in Principals :
        \/ \E pk \in IfLoggedIn(u, PkChoices(sales)) : SaleDeleteView(u, pk)
        \/ \E ids \in IfLoggedIn(u, IdLists) : SaleBulkDeleteView(u, ids)
        \/ \E form \in HeaderForms : \E formset \in FormsetsFor(form, 0, initial, extra) :
              sale_create(u, form, formset)
        \/ \E pk \in PkChoices(sales) : \E form \in HeaderForms :
              \E formset \in FormsetsFor(form, pk, initial, extra) :
                  sale_update(u, pk, form, formset)

ProductRequests ==
    /\ Len(log) < MaxLog
    /\ \E u \in Principals :
        \/ \E form \in IfAdmin(u, EntityForms) : ProductCreateView(u, form)
        \/ \E pk \in IfAdmin(u, PkChoices(products)) : \E form \in IfAdmin(u, EntityForms) :
              ProductUpdateView(u, pk, form)
        \/ \E pk \in IfAdmin(u, PkChoices(products)) : ProductDeleteView(u, pk)

SupplierRequests ==
    /\ Len(log) < MaxLog
    /\ \E u \in Principals :
        \/ \E form \in IfAdmin(u, EntityForms) : SupplierCreateView(u, form)
        \/ \E pk \in IfAdmin(u, PkChoices(suppliers)) : \E form \in IfAdmin(u, EntityForms) :
              SupplierUpdateView(u, pk, form)
        \/ \E pk \in IfAdmin(u, PkChoices(suppliers)) : SupplierDeleteView(u, pk)

CategoryRequests ==
    /\ Len(log) < MaxLog
    /\ \E u \in Principals :
        \/ \E form \in IfAdmin(u, EntityForms) : CategoryCreateView(u, form)
        \/ \E pk \in IfAdmin(u, PkChoices(categories)) : \E form \in IfAdmin(u, EntityForms) :
              CategoryUpdateView(u, pk, form)
        \/ \E pk \in IfAdmin(u, PkChoices(categories)) : CategoryDeleteView(u, pk)

EmployeeRequests ==
    /\ Len(log) < MaxLog
    /\ \E u \in Principals :
        \/ \E form \in IfAdmin(u, EmployeeForms) : EmployeeCreateView(u, form)
        \/ \E pk \in IfAdmin(u, PkChoices(users)) : \E form \in IfAdmin(u, EmployeeForms) :
              EmployeeUpdateView(u, pk, form)
        \/ \E pk \in IfAdmin(u, PkChoices(users)) : EmployeeDeleteView(u, pk)
        \/ \E form \in EmployeeForms : u = Anonymous /\ UserRegisterView(u, form)

EmployeeReads ==
    \E u \in Principals :
        \/ \E search \in IfAdmin(u, SearchTerms) : \E role \in IfAdmin(u, RoleParams) :
              \E status \in IfAdmin(u, StatusParams) : EmployeeListView(u, search, role, status)
        \/ \E pk \in IfAdmin(u, PkChoices(users)) : EmployeeDetailView(u, pk)

Next ==
    \/ SaleRequests(FewInitialData, FewExtraData)
    \/ ProductRequests
    \/ SupplierRequests
    \/ CategoryRequests
    \/ EmployeeRequests

Spec == Init /\ [][Next]_vars

NextSales ==
    \/ SaleRequests(InitialData, ExtraData)
    \/ /\ Len(log) < MaxLog
       /\ \E u \in Principals : \E pk \in IfAdmin(u, PkChoices(products)) : ProductDeleteView(u, pk)

SpecSales == Init /\ [][NextSales]_vars

NextSearch ==
    \/ EmployeeRequests
    \/ EmployeeReads

SpecSearch == Init /\ [][NextSearch]_vars

\* ---------------------------------------------------------------- SpecConc
\* The same two views, one database statement per step. Each statement
\* commits on its own: the views open no transaction.

\* sale_create: form = SaleForm(request.POST) ... if form.is_valid() and formset.is_valid()
create_begin(p, u, form, formset) ==
    /\ pc[p] = "idle"
    /\ is_authenticated(u)
    /\ form_is_valid(form) /\ formset_is_valid(formset)
    /\ loc' = [loc EXCEPT ![p] = [view |-> "sale_create", user |-> u, pk |-> 0,
                                  status |-> form.status, total_amount |-> 0,
                                  formset |-> formset, initial |-> << >>,
                                  before |-> Before, raised |-> "none"]]
    /\ pc' = [pc EXCEPT ![p] = "form_save"]
    /\ UNCHANGED <<store, log, last>>

\* sale_update: sale = get_object_or_404(Sale, pk=pk) ... if form.is_valid() and formset.is_valid()
update_begin(p, u, pk, form, formset) ==
    /\ pc[p] = "idle"
    /\ is_authenticated(u)
    /\ pk \in DOMAIN sales
    /\ form_is_valid(form) /\ formset_is_valid(formset)
    /\ loc' = [loc EXCEPT ![p] = [view |-> "sale_update", user |-> u, pk |-> pk,
                                  status |-> form.status,
                                  total_amount |-> sales[pk].total_amount,
                                  formset |-> formset, initial |-> InitialRows(items, pk),
                                  before |-> Before, raised |-> "none"]]
    /\ pc' = [pc EXCEPT ![p] = "form_save"]
    /\ UNCHANGED <<store, log, last>>

\* sale = form.save()
form_save(p) ==
    /\ pc[p] = "form_save"
    /\ LET pk == IF loc[p].view = "sale_create" THEN nextpk.sale ELSE loc[p].pk
       IN  /\ sales' = SaveSale(sales, pk, loc[p].status, loc[p].total_amount)
           /\ nextpk' = IF loc[p].view = "sale_create"
                        THEN [nextpk EXCEPT !.sale = pk + 1] ELSE nextpk
           /\ loc' = [loc EXCEPT ![p].pk = pk]
    /\ pc' = [pc EXCEPT ![p] = "formset_save"]
    /\ UNCHANGED <<users, suppliers, categories, products, items, log, last>>

\* formset.save()
formset_save_step(p) ==
    /\ pc[p] = "formset_save"
    /\ LET saved == formset_save(loc[p].formset, loc[p].pk, loc[p].initial, items, nextpk.item)
       IN  /\ items' = saved.items
           /\ nextpk' = [nextpk EXCEPT !.item = saved.next]
    /\ pc' = [pc EXCEPT ![p] = "compute"]
    /\ UNCHANGED <<users, suppliers, categories, products, sales, log, last, loc>>

\* sale.total_amount = sum(item.line_total for item in sale.items.all())
compute_total(p) ==
    /\ pc[p] = "compute"
    /\ loc' = [loc EXCEPT ![p].total_amount = ComputeTotal(items, loc[p].pk)]
    /\ pc' = [pc EXCEPT ![p] = "sale_save"]
    /\ UNCHANGED <<store, log, last>>

\* sale.save()
sale_save(p) ==
    /\ pc[p] = "sale_save"
    /\ sales' = SaveSale(sales, loc[p].pk, loc[p].status, loc[p].total_amount)
    /\ pc' = [pc EXCEPT ![p] = "log"]
    /\ UNCHANGED <<users, suppliers, categories, products, items, nextpk, log, last, loc>>

\* the verb and level each view passes to ActivityLog.objects.create
LogVerb(view) ==
    CASE view = "sale_create" -> "Vente creee"
      [] view = "sale_update" -> "Vente modifiee"
      [] view = "ProductDeleteView" -> "Produit et elements de vente supprimes"
      [] view = "SupplierCreateView" -> "Fournisseur cree"

LogLevel(view) ==
    CASE view = "sale_create" -> "success"
      [] view = "sale_update" -> "info"
      [] view = "ProductDeleteView" -> "danger"
      [] view = "SupplierCreateView" -> "success"

\* messages.success(...); ActivityLog.objects.create(...); return redirect(...)
log_create(p) ==
    /\ pc[p] = "log"
    /\ log' = LogCreate(log, loc[p].user, LogVerb(loc[p].view), LogLevel(loc[p].view))
    /\ pc' = [pc EXCEPT ![p] = "done"]
    /\ UNCHANGED <<store, last, loc>>

\* def sale_detail_json(request, pk)
sale_detail_json(u, pk) ==
    /\ is_authenticated(u)
    /\ pk \in DOMAIN sales
    /\ last' = [Resp("sale_detail_json", u, pk, "ok", "none")
                   EXCEPT !.req = [kind |-> "json",
                                   subtotal |-> ComputeTotal(items, pk),
                                   total_amount |-> sales[pk].total_amount]]
    /\ UNCHANGED <<store, log, conc>>

ValidHeaders == {f \in HeaderForms : form_is_valid(f)}

\* the requests that pass validation, one logged-in client
ConcPrincipals == {CHOOSE u \in Principals : is_authenticated(u)}

ConcExtraData == {d \in FewExtraData : ~d.errors}

ConcInitialData == {d \in FewInitialData : ~d.errors}

NextConc ==
    \/ \E p \in Procs : \E u \in ConcPrincipals : \E pk \in DOMAIN sales : \E form \in ValidHeaders :
          \E formset \in Formsets(ItemsOfPk(pk), ConcInitialData, ConcExtraData) :
              update_begin(p, u, pk, form, formset)
    \/ \E p \in Procs : \E u \in ConcPrincipals : \E form \in ValidHeaders :
          \E formset \in Formsets({}, ConcInitialData, ConcExtraData) :
              create_begin(p, u, form, formset)
    \/ \E p \in Procs : form_save(p)
    \/ \E p \in Procs : formset_save_step(p)
    \/ \E p \in Procs : compute_total(p)
    \/ \E p \in Procs : sale_save(p)
    \/ \E p \in Procs : log_create(p)
    \/ \E u \in ConcPrincipals : \E pk \in DOMAIN sales : sale_detail_json(u, pk)

SpecConc == Init /\ [][NextConc]_vars

\* ---------------------------------------------------------------- SpecFail
\* One request, one database statement per step, and any statement may raise
\* (a database error). No view catches the exception and none opens a
\* transaction: what the earlier statements committed stays, the rest of the
\* view is skipped and the request ends with the exception.

\* ProductDeleteView.delete: obj = self.get_object(), by an admin
product_delete_begin(p, u, pk) ==
    /\ pc[p] = "idle"
    /\ test_func(u)
    /\ pk \in DOMAIN products
    /\ loc' = [loc EXCEPT ![p] = [IdleLoc EXCEPT !.view = "ProductDeleteView", !.user = u,
                                                 !.pk = pk, !.before = Before]]
    /\ pc' = [pc EXCEPT ![p] = "items_delete"]
    /\ UNCHANGED <<store, log, last>>

\* obj.items.all().delete()
items_delete(p) ==
    /\ pc[p] = "items_delete"
    /\ items' = DeleteProductItems(items, loc[p].pk)
    /\ pc' = [pc EXCEPT ![p] = "product_delete"]
    /\ UNCHANGED <<users, suppliers, categories, products, sales, nextpk, log, last, loc>>

\* response = super().delete(request, *args, **kwargs)
product_delete(p) ==
    /\ pc[p] = "product_delete"
    /\ products' = Restrict(products, DOMAIN products \ {loc[p].pk})
    /\ pc' = [pc EXCEPT ![p] = "log"]
    /\ UNCHANGED <<users, suppliers, categories, sales, items, nextpk, log, last, loc>>

\* SupplierCreateView.form_valid, by an admin, the form valid
supplier_begin(p, u, form) ==
    /\ pc[p] = "idle"
    /\ test_func(u)
    /\ form_is_valid(form)
    /\ loc' = [loc EXCEPT ![p] = [IdleLoc EXCEPT !.view = "SupplierCreateView", !.user = u,
                                                 !.status = form.status, !.before = Before]]
    /\ pc' = [pc EXCEPT ![p] = "supplier_save"]
    /\ UNCHANGED <<store, log, last>>

\* response = super().form_valid(form)
supplier_save(p) ==
    /\ pc[p] = "supplier_save"
    /\ suppliers' = (nextpk.supplier :> [status |-> loc[p].status]) @@ suppliers
    /\ nextpk' = [nextpk EXCEPT !.supplier = @ + 1]
    /\ loc' = [loc EXCEPT ![p].pk = nextpk.supplier]
    /\ pc' = [pc EXCEPT ![p] = "log"]
    /\ UNCHANGED <<users, categories, products, sales, items, log, last>>

\* the statements that go to the database, by the position that runs them
Statements == {"form_save", "compute", "sale_save", "log",
               "items_delete", "product_delete", "supplier_save"}

\* the exception leaves the view: no redirect, the server error response
Raise(p, at) ==
    /\ pc' = [pc EXCEPT ![p] = "raised"]
    /\ loc' = [loc EXCEPT ![p].raised = at]
    /\ last' = Resp(loc[p].view, loc[p].user, loc[p].pk, "server_error", "none")

\* a statement raises: it writes nothing itself
statement_raises(p) ==
    /\ pc[p] \in Statements
    /\ Raise(p, pc[p])
    /\ UNCHANGED <<store, log>>

\* formset.save() raises at its form k + 1: the forms before it are saved
formset_save_raises(p, k) ==
    /\ pc[p] = "formset_save"
    /\ k \in 0..(Len(loc[p].formset) - 1)
    /\ LET saved == formset_save(SubSeq(loc[p].formset, 1, k), loc[p].pk, loc[p].initial,
                                 items, nextpk.item)
       IN  /\ items' = saved.items
           /\ nextpk' = [nextpk EXCEPT !.item = saved.next]
    /\ Raise(p, "formset_save")
    /\ UNCHANGED <<users, suppliers, categories, products, sales, log>>

FailProcs == {1}

FailPrincipals == {u \in Principals : is_authenticated(u)}

NextFail ==
    \/ \E p \in FailProcs : \E u \in FailPrincipals : \E pk \in DOMAIN sales :
          \E form \in ValidHeaders :
          \E formset \in Formsets(ItemsOfPk(pk), ConcInitialData, ConcExtraData) :
              update_begin(p, u, pk, form, formset)
    \/ \E p \in FailProcs : \E u \in FailPrincipals : \E form \in ValidHeaders :
          \E formset \in Formsets({}, ConcInitialData, ConcExtraData) :
              create_begin(p, u, form, formset)
    \/ \E p \in FailProcs : \E u \in FailPrincipals : \E pk \in DOMAIN products :
          product_delete_begin(p, u, pk)
    \/ \E p \in FailProcs : \E u \in FailPrincipals : \E form \in EntityForms :
          supplier_begin(p, u, form)
    \/ \E p \in FailProcs : form_save(p)
    \/ \E p \in FailProcs : formset_save_step(p)
    \/ \E p \in FailProcs : compute_total(p)
    \/ \E p \in FailProcs : sale_save(p)
    \/ \E p \in FailProcs : items_delete(p)
    \/ \E p \in FailProcs : product_delete(p)
    \/ \E p \in FailProcs : supplier_save(p)
    \/ \E p \in FailProcs : log_create(p)
    \/ \E p \in FailProcs : statement_raises(p)
    \/ \E p \in FailProcs : \E k \in 0..MaxForms : formset_save_raises(p, k)

SpecFail == Init /\ [][NextFail]_vars

\* ================================================================ properties
RECURSIVE QtyTimesPrice(_)
QtyTimesPrice(S) ==
    IF S = {} THEN 0
    ELSE LET i == CHOOSE x \in S : TRUE
         IN  items[i].quantity * items[i].unit_price + QtyTimesPrice(S \ {i})

\* the sum of quantity * unit_price over the rows the sale has now
ItemSum(pk) == QtyTimesPrice({i \in DOMAIN items : items[i].sale = pk})

SaleWrites == {"sale_create", "sale_update"}

\* C1: right after a successful sale_create or sale_update the stored
\* total_amount of that sale is the sum of quantity * unit_price over the rows
\* the sale has at that moment, whatever total was stored before.
C1_TotalRederived ==
    (last.view \in SaleWrites /\ last.outcome = "redirect")
        => /\ last.pk \in DOMAIN sales
           /\ sales[last.pk].total_amount = ItemSum(last.pk)

\* an update of sale 1 (stored total 8 at first) that left it two rows and another total
C1_Witness ==
    /\ last.view = "sale_update" /\ last.outcome = "redirect" /\ last.pk = 1
    /\ 1 \in DOMAIN sales
    /\ Cardinality({i \in DOMAIN items : items[i].sale = 1}) = 2
    /\ sales[1].total_amount = 12

\* C2: in every reachable state every persisted Sale has total_amount equal to
\* the sum of line totals over its current SaleItems.
C2_TotalInvariant ==
    \A pk \in DOMAIN sales : sales[pk].total_amount = ItemSum(pk)

\* C3: a sale submission whose header or a validated row has errors persists
\* nothing: tables and ActivityLog stay as they are and the form is rendered.
C3_InvalidPersistsNothing ==
    [][(/\ last'.view \in SaleWrites
        /\ last'.req.kind = "sale"
        /\ (last'.req.header_errors \/ last'.req.bad_rows > 0))
          => (/\ UNCHANGED <<store, log>>
              /\ last'.outcome = "render")]_vars

\* a sound header, two rows, one of them failing validation: rendered again
C3_Witness ==
    /\ last.view \in SaleWrites /\ last.req.kind = "sale"
    /\ ~last.req.header_errors /\ last.req.rows = 2 /\ last.req.bad_rows = 1
    /\ last.outcome = "render"

\* C4: no reader sees a stored total that differs from the sum over the rows
\* it reads, and once no sale request is in flight every stored total is the
\* sum over the final rows.
C4_AtomicPersist ==
    /\ (last.view = "sale_detail_json" => last.req.total_amount = last.req.subtotal)
    /\ ((\A p \in Procs : pc[p] \in {"idle", "done"})
           => \A pk \in DOMAIN sales : sales[pk].total_amount = ItemSum(pk))

\* C5: after a successful product delete the Product is gone, no SaleItem
\* names it, and none named it any more when the Product row was removed.
C5_ProductDeleteCascade ==
    (last.view = "ProductDeleteView" /\ last.outcome = "redirect")
        => /\ last.pk \notin DOMAIN products
           /\ {i \in DOMAIN items : items[i].product = last.pk} = {}
           /\ last.req.left = 0

\* a product with two dependent rows was deleted
C5_Witness ==
    /\ last.view = "ProductDeleteView" /\ last.outcome = "redirect"
    /\ last.req.dependents = 2

NoDuplicates(ids) == \A i, j \in 1..Len(ids) : ids[i] = ids[j] => i = j

\* C6: a bulk delete naming k existing Sales removes exactly those, keeps the
\* others as they were and reports k; with no identifier it deletes nothing,
\* logs nothing and answers with an info notice.
C6_BulkDelete ==
    [][(last'.view = "SaleBulkDeleteView" /\ last'.req.kind = "bulk")
          => LET ids == last'.req.ids
                 S == {ids[i] : i \in 1..Len(ids)}
             IN  /\ (ids # << >> /\ S \subseteq DOMAIN sales)
                       => /\ DOMAIN sales' = DOMAIN sales \ S
                          /\ \A pk \in DOMAIN sales' : sales'[pk] = sales[pk]
                          /\ last'.count = Cardinality(S)
                          /\ NoDuplicates(ids) => last'.count = Len(ids)
                          /\ last'.level = "success"
                 /\ ids = << >>
                       => /\ UNCHANGED <<store, log>>
                          /\ last'.level = "info"]_vars

\* two sales named, two removed
C6_Witness ==
    /\ last.view = "SaleBulkDeleteView" /\ last.req.kind = "bulk"
    /\ Len(last.req.ids) = 2 /\ last.count = 2
    /\ \A i \in 1..2 : last.req.ids[i] \notin DOMAIN sales

EmployeeObjectViews == {"EmployeeDetailView", "EmployeeUpdateView", "EmployeeDeleteView"}

\* C7: the employee list of an admin never holds the admin's own row, and a
\* detail, update or delete of the admin's own id is not found and changes
\* neither the users nor the ActivityLog.
C7_SelfExcluded ==
    [][/\ (last'.view = "EmployeeListView" /\ last'.outcome = "ok")
            => last'.user \notin last'.result
       /\ (/\ last'.view \in EmployeeObjectViews
           /\ last'.user \in DOMAIN users
           /\ users[last'.user].role = "admin"
           /\ users[last'.user].is_active
           /\ last'.pk = last'.user)
            => (/\ last'.outcome = "not_found"
                /\ UNCHANGED <<users, log>>)]_vars

\* an admin asked to delete the admin's own row
C7_Witness ==
    /\ last.view = "EmployeeDeleteView" /\ last.pk = last.user
    /\ last.user \in DOMAIN users /\ users[last.user].role = "admin"
    /\ last.outcome = "not_found"

ManagementViews ==
    {"EmployeeCreateView", "EmployeeUpdateView", "EmployeeDeleteView",
     "SupplierCreateView", "SupplierUpdateView", "SupplierDeleteView",
     "CategoryCreateView", "CategoryUpdateView", "CategoryDeleteView",
     "ProductCreateView", "ProductUpdateView", "ProductDeleteView",
     "sale_create", "sale_update", "SaleDeleteView", "SaleBulkDeleteView"}

\* C8: a create, update, delete or bulk delete asked by a principal that is
\* not a logged-in admin changes no table and is answered by a redirect to
\* the login page, with the access-denied notice when the principal is logged
\* in (the notice of an anonymous request is not held against the views).
C8_AdminOnly ==
    [][(/\ last'.view \in ManagementViews
        /\ ~(last'.user \in DOMAIN users /\ users[last'.user].role = "admin"))
          => (/\ UNCHANGED store
              /\ last'.outcome = "redirect_login"
              /\ last'.user # Anonymous => last'.level = "error")]_vars

\* the user a log row is owed to: the account itself at registration
Actor(r) == IF r.view = "UserRegisterView" THEN r.pk ELSE r.user

\* C9: the ActivityLog only grows: every step keeps the rows already there, in
\* place, and every step that changes a table appends exactly one row, owed
\* to the acting user.
C9_LogAppendOnly ==
    [][/\ Len(log') >= Len(log)
       /\ SubSeq(log', 1, Len(log)) = log
       /\ (store' # store)
            => (/\ Len(log') = Len(log) + 1
                /\ log'[Len(log')].user = Actor(last'))]_vars

\* an employee was deleted and the row logged before is still the first
C9_Witness ==
    /\ last.view = "EmployeeDeleteView" /\ last.outcome = "redirect"
    /\ Len(log) = 2
    /\ log[1].verb = "Vente creee"
    /\ log[2].verb = "Employe supprime" /\ log[2].user = last.user

\* the employees the three parameters select, each parameter on its own
SearchExpected(u, search, role, status) ==
    {e \in DOMAIN users \ {u} :
        /\ search = << >>
              \/ icontains(users[e].first_name, search)
              \/ icontains(users[e].last_name, search)
              \/ icontains(users[e].email, search)
        /\ role \in Roles => users[e].role = role
        /\ status = "active" => users[e].is_active
        /\ status = "inactive" => ~users[e].is_active}

\* C10: the employee list is exactly the other users whose first name, last
\* name or email contains the term (any case) and whose role and active flag
\* match the role and status given; a missing or invalid parameter filters
\* nothing.
C10_SearchComposition ==
    (last.view = "EmployeeListView" /\ last.outcome = "ok")
        => last.result = SearchExpected(last.user, last.req.search, last.req.role, last.req.status)

\* C13: a bulk delete whose identifiers match no existing Sale (none given, or
\* only unknown ones) removes nothing and answers with an info notice, neither
\* a success nor an error notice.
C13_ZeroMatchInfo ==
    [][(/\ last'.view = "SaleBulkDeleteView" /\ last'.outcome = "redirect"
        /\ last'.req.kind = "bulk"
        /\ Range(last'.req.ids) \cap DOMAIN sales = {})
          => /\ sales' = sales /\ items' = items
             /\ last'.level = "info"]_vars

\* the store once every statement of the sale request p has run
SaleEffects(p) ==
    LET b == loc[p].before
        pk == loc[p].pk
        saved == formset_save(loc[p].formset, pk, loc[p].initial, b.items, b.next_item)
    IN  [items |-> saved.items,
         sales |-> SaveSale(b.sales, pk, loc[p].status, ComputeTotal(saved.items, pk))]

AfterHeader == {"formset_save", "compute", "sale_save"}

\* C11: when a statement of sale_create or sale_update raises after the header
\* was saved (saving the rows, computing the total or saving the total), the
\* store holds either everything the request writes, the total being the sum
\* over the sale's rows, or nothing of it: no Sale is left with a stale or
\* missing total.
C11_FailureLeavesNoStaleTotal ==
    \A p \in FailProcs :
        (loc[p].view \in SaleWrites /\ pc[p] = "raised" /\ loc[p].raised \in AfterHeader)
            => \/ sales = loc[p].before.sales /\ items = loc[p].before.items
               \/ /\ sales = SaleEffects(p).sales /\ items = SaleEffects(p).items
                  /\ sales[loc[p].pk].total_amount = ItemSum(loc[p].pk)

\* C12: when a statement of the product delete raises (removing the dependent
\* SaleItems or removing the Product), the delete is aborted as a whole: the
\* Product and all its SaleItems are there as they were before the request.
C12_ProductDeleteAborts ==
    \A p \in FailProcs :
        (/\ loc[p].view = "ProductDeleteView" /\ pc[p] = "raised"
         /\ loc[p].raised \in {"items_delete", "product_delete"})
            => /\ products = loc[p].before.products
               /\ items = loc[p].before.items

\* the primary write of request p is in the store
PrimaryPersisted(p) ==
    CASE loc[p].view \in SaleWrites ->
             /\ loc[p].pk \in DOMAIN sales
             /\ sales[loc[p].pk] = [status |-> loc[p].status,
                                    total_amount |-> loc[p].total_amount]
      [] loc[p].view = "ProductDeleteView" -> loc[p].pk \notin DOMAIN products
      [] loc[p].view = "SupplierCreateView" ->
             /\ loc[p].pk \in DOMAIN suppliers
             /\ suppliers[loc[p].pk].status = loc[p].status
      [] OTHER -> FALSE

\* C14: when ActivityLog.objects.create raises after the primary write of a
\* mutating view, the primary write stays in the store and the request still
\* ends with its normal success outcome.
C14_LogBestEffort ==
    \A p \in FailProcs :
        loc[p].raised = "log" => (PrimaryPersisted(p) /\ pc[p] = "done")

====
